---- MODULE Spec2Model ----
(***************************************************************************)
(* The order editor (EditOrder) of the tailoring dashboard, its derived    *)
(* totals and its three-step submission against the remote data gateway.   *)
(***************************************************************************)
EXTENDS Integers, Sequences, FiniteSets, TLC

(***************************************************************************)
(* JavaScript Number arithmetic.                                           *)
(*                                                                         *)
(* Monetary fields are JS Numbers (IEEE-754 binary64).  A Number of the    *)
(* model is a value on the grid 2^-56 held in three limbs <<ip, f1, f0>>   *)
(* of 28 bits: value = ip + f1 / 2^28 + f0 / 2^56; the limbs of a negative *)
(* value are all <= 0.  So 5 is <<5, 0, 0>> and -1 is <<-1, 0, 0>>.        *)
(* Every binary64 value v with 2^-4 <= |v| < 2^25, and 0, lies on that     *)
(* grid, and sums, differences and products by an integer of grid values   *)
(* stay on it, so the exact result is computed limb-wise and then rounded  *)
(* to the 53-bit significand, ties to even, as the language's + and * do.  *)
(* -0 is identified with 0 (they are === in the program).                  *)
(***************************************************************************)
Limb == 2 ^ 28

Zero == <<0, 0, 0>>

IsNeg(x) == x[1] < 0 \/ x[2] < 0 \/ x[3] < 0

Neg(x) == <<-x[1], -x[2], -x[3]>>

Mag(x) == IF IsNeg(x) THEN Neg(x) ELSE x

\* magnitudes: a + b
MagAdd(a, b) ==
    LET s0 == a[3] + b[3]
        s1 == a[2] + b[2] + (s0 \div Limb)
    IN  <<a[1] + b[1] + (s1 \div Limb), s1 % Limb, s0 % Limb>>

\* magnitudes: a - b for a >= b
MagSub(a, b) ==
    LET d0 == a[3] - b[3]
        b0 == IF d0 < 0 THEN 1 ELSE 0
        d1 == a[2] - b[2] - b0
        b1 == IF d1 < 0 THEN 1 ELSE 0
    IN  <<a[1] - b[1] - b1, d1 + b1 * Limb, d0 + b0 * Limb>>

MagLess(a, b) ==
    \/ a[1] < b[1]
    \/ a[1] = b[1] /\ a[2] < b[2]
    \/ a[1] = b[1] /\ a[2] = b[2] /\ a[3] < b[3]

\* magnitudes: a * q for a natural q <= 7
MagMul(a, q) ==
    LET p0 == a[3] * q
        p1 == a[2] * q + (p0 \div Limb)
    IN  <<a[1] * q + (p1 \div Limb), p1 % Limb, p0 % Limb>>

RECURSIVE BitLen(_)
BitLen(n) == IF n = 0 THEN 0 ELSE 1 + BitLen(n \div 2)

MagBits(m) ==
    IF m[1] > 0 THEN 56 + BitLen(m[1])
    ELSE IF m[2] > 0 THEN 28 + BitLen(m[2])
    ELSE BitLen(m[3])

\* round an exact magnitude to 53 significant bits, ties to even
RoundMag(m) ==
    LET c == MagBits(m) - 53
    IN  CASE c <= 0 -> m
          [] c >= 1 /\ c <= 28 ->
             LET unit == 2 ^ c
                 low  == m[3] % unit
                 half == unit \div 2
                 lsb  == IF c = 28 THEN m[2] % 2 ELSE (m[3] \div unit) % 2
                 down == <<m[1], m[2], m[3] - low>>
                 up   == low > half \/ (low = half /\ lsb = 1)
             IN  IF up THEN MagAdd(down, <<0, unit \div Limb, unit % Limb>>)
                 ELSE down

\* the integer k as a Number
FromInt(k) == <<k, 0, 0>>

\* the exact (unrounded) sum and product by an integer
ExactAdd(x, y) ==
    IF IsNeg(x) = IsNeg(y)
    THEN (IF IsNeg(x) THEN Neg(MagAdd(Mag(x), Mag(y))) ELSE MagAdd(x, y))
    ELSE IF MagLess(Mag(x), Mag(y))
         THEN (IF IsNeg(y) THEN Neg(MagSub(Mag(y), Mag(x))) ELSE MagSub(y, Mag(x)))
         ELSE (IF IsNeg(x) THEN Neg(MagSub(Mag(x), Mag(y))) ELSE MagSub(x, Mag(y)))

ExactMul(q, y) ==
    LET a == IF q < 0 THEN -q ELSE q
        p == MagMul(Mag(y), a)
    IN  IF (q < 0) # IsNeg(y) THEN Neg(p) ELSE p

Round(x) == IF IsNeg(x) THEN Neg(RoundMag(Neg(x))) ELSE RoundMag(x)

\* x + y of the language
FAdd(x, y) == Round(ExactAdd(x, y))

\* q * y of the language, for an integer-valued q
FMul(q, y) == Round(ExactMul(q, y))

\* x >= 0
NonNeg(x) == ~IsNeg(x)

\* a stored numeric column that holds no value (types.ts: number | null)
Null == <<>>

\* a fetched value that is no number: undefined, or text that is no numeral
NotANumber == <<"text">>

\* the Number value NaN
NaN == <<"NaN">>

\* Number(v) of a fetched value: null converts to 0, a non-numeric value to NaN
ToNumber(v) == IF v = Null THEN Zero ELSE IF v = NotANumber THEN NaN ELSE v

\* v || 0: a falsy value (null, 0, NaN) gives 0
OrZero(v) == IF v = Null \/ v = Zero \/ v = NaN THEN Zero ELSE v

\* z.number().min(0) rejects v: NaN is no number for zod
BelowZero(v) == v = NaN \/ IsNeg(v)

Tenth == <<0, 26843545, 161061274>>         \* 0.1
TwoTenths == <<0, 53687091, 53687092>>      \* 0.2
ThreeTenths == <<0, 80530636, 214748364>>   \* 0.3

(***************************************************************************)
(* Bounds of the model.                                                    *)
(***************************************************************************)
MaxItems == 3     \* longest item list of the form
MaxEdits == 1     \* field edits of one editor session under Spec
MaxSubmits == 2   \* onSubmit calls of one editor session
MaxAttempts == 3  \* sign-in attempts on the login screen

Sessions == {1, 2}
OrderIds == {"X", "Y"}
NoId == "none"
Statuses == {"pending", "completed", "cancelled"}

(***************************************************************************)
(* Sequences.                                                              *)
(***************************************************************************)
RECURSIVE Reduce(_, _, _)
\* seq.reduce(f, init): left to right
Reduce(f(_, _), seq, init) ==
    IF seq = <<>> THEN init
    ELSE Reduce(f, Tail(seq), f(init, Head(seq)))

\* a remove that drops the last entry whatever the index
RemoveLast(seq, i) == SubSeq(seq, 1, Len(seq) - 1)

\* remove(index) of useFieldArray
RemoveAt(seq, i) == [k \in 1..(Len(seq) - 1) |-> IF k < i THEN seq[k] ELSE seq[k + 1]]

\* every order in which a set of rows can be returned
Orderings(S) ==
    {q \in [1..Cardinality(S) -> S] : \A a, b \in 1..Cardinality(S) : a # b => q[a] # q[b]}

VARIABLES
    orders,          \* gateway: table orders, by id
    order_items,     \* gateway: table order_items, a set of rows
    nextRowId,       \* gateway: next generated order_items.id
    routeId,         \* per session: useParams().id
    form,            \* per session: react-hook-form values
    errors,          \* per session: formState.errors (paths)
    initialLoading,  \* per session: useState(true)
    loading,         \* per session: useState(false)
    pc,              \* per session: where the async handlers stand
    fetched,         \* per session: orderData and itemsData of fetchOrder
    runs,            \* per session: the onSubmit calls made so far, in order
    toasts,          \* per session: notifications shown
    location,        \* per session: current route
    edits,           \* per session: field edits made
    ordersPage,      \* Orders: orders, loading, where fetchOrders stands
    productsPage,    \* Products: products, loading, where fetchProducts stands
    detailsPage,     \* OrderDetails: id, order, loading, where fetchOrderDetails stands
    dashboard,       \* Dashboard: stats, where fetchStats stands
    loginPage        \* Login: email, password, loading, where handleSubmit stands

vars == <<orders, order_items, nextRowId, routeId, form, errors, initialLoading,
          loading, pc, fetched, runs, toasts, location,
          edits, ordersPage, productsPage, detailsPage, dashboard, loginPage>>

gatewayVars == <<orders, order_items, nextRowId>>

viewVars == <<ordersPage, productsPage, detailsPage, dashboard, loginPage>>

(***************************************************************************)
(* Derived totals of the editor.                                           *)
(***************************************************************************)
AddLine(sum, item) == FAdd(sum, FMul(item.quantity, item.unit_price))

ItemsTotal(items) == Reduce(AddLine, items, Zero)

AddQuantity(sum, item) == sum + item.quantity

\* a reduce that counts the rows instead of adding their quantities
TotalPiecesCountsRows(items) == Len(items)

TotalPieces(items) == Reduce(AddQuantity, items, 0)

\* a total that leaves the tax out
TotalPriceOmitsTax(f) ==
    FAdd(FAdd(FAdd(ItemsTotal(f.order_items), OrZero(f.fabric_price)),
              OrZero(f.tailoring_price)),
         OrZero(f.extra_costs))

TotalPrice(f) ==
    FAdd(FAdd(FAdd(FAdd(ItemsTotal(f.order_items), OrZero(f.fabric_price)),
                   OrZero(f.tailoring_price)),
              OrZero(f.extra_costs)),
         OrZero(f.tax_amount))

(***************************************************************************)
(* The form.                                                               *)
(***************************************************************************)
DefaultValues ==
    [customer_name |-> "", customer_phone |-> "", status |-> "pending",
     fabric_price |-> Zero, tailoring_price |-> Zero, extra_costs |-> Zero,
     tax_amount |-> Zero, order_items |-> <<>>]

\* the argument of append(...): quantity 1, meters 0, unit_price 0
BlankItem == [product_name |-> "", quantity |-> 1, meters |-> Zero, unit_price |-> Zero]

PriceFields == {"fabric_price", "tailoring_price", "extra_costs", "tax_amount"}

\* the form is on screen and the component mounted
Editable(s) == ~initialLoading[s] /\ location[s] = "editor"

\* a specification that bounds the user's edits counts them
CountEdit(s, counted) ==
    IF counted
    THEN edits[s] < MaxEdits /\ edits' = [edits EXCEPT ![s] = @ + 1]
    ELSE UNCHANGED edits

SetForm(s, f) ==
    /\ form' = [form EXCEPT ![s] = f]
    /\ UNCHANGED <<viewVars, gatewayVars, routeId, errors, initialLoading, loading, pc, fetched,
                   runs, toasts, location>>

AppendItem(s, counted) ==
    /\ Editable(s)
    /\ Len(form[s].order_items) < MaxItems
    /\ CountEdit(s, counted)
    /\ SetForm(s, [form[s] EXCEPT !.order_items = Append(@, BlankItem)])

RemoveItem(s, index, counted) ==
    /\ Editable(s)
    /\ Len(form[s].order_items) > 1
    /\ index \in 1..Len(form[s].order_items)
    /\ CountEdit(s, counted)
    /\ SetForm(s, [form[s] EXCEPT !.order_items = RemoveAt(@, index)])

SetItemField(s, index, field, v, counted) ==
    /\ Editable(s)
    /\ index \in 1..Len(form[s].order_items)
    /\ form[s].order_items[index][field] # v
    /\ CountEdit(s, counted)
    /\ SetForm(s, [form[s] EXCEPT !.order_items[index][field] = v])

SetField(s, field, v, counted) ==
    /\ Editable(s)
    /\ form[s][field] # v
    /\ CountEdit(s, counted)
    /\ SetForm(s, [form[s] EXCEPT ![field] = v])

(***************************************************************************)
(* Initial state: two stored orders, every editor just constructed.        *)
(***************************************************************************)
NothingFetched == [orderData |-> <<>>, itemsData |-> <<>>]

InitOrders ==
    [o \in OrderIds |->
        IF o = "X"
        THEN [customer_name |-> "Ali", customer_phone |-> "0550", status |-> "pending",
              total_pieces |-> 3, total_price |-> FromInt(31),
              fabric_price |-> FromInt(3), tailoring_price |-> FromInt(2),
              extra_costs |-> Null, tax_amount |-> FromInt(1),
              order_number |-> "ORD-1", customer_id |-> "c1",
              images |-> <<"front.jpg">>, created_at |-> "2024-01-01"]
        ELSE [customer_name |-> "Sara", customer_phone |-> "0551", status |-> "archived",
              total_pieces |-> 2, total_price |-> FromInt(10),
              fabric_price |-> Null, tailoring_price |-> Null,
              extra_costs |-> Null, tax_amount |-> Null,
              order_number |-> "ORD-2", customer_id |-> "c2",
              images |-> <<>>, created_at |-> "2024-01-02"]]

InitItems ==
    {[id |-> 1, order_id |-> "X", product_name |-> "thobe", quantity |-> 2,
      meters |-> FromInt(3), unit_price |-> FromInt(10), total_price |-> FromInt(20)],
     [id |-> 2, order_id |-> "X", product_name |-> "shirt", quantity |-> 1,
      meters |-> Null, unit_price |-> FromInt(5), total_price |-> FromInt(5)],
     [id |-> 3, order_id |-> "Y", product_name |-> "abaya", quantity |-> 1,
      meters |-> Null, unit_price |-> FromInt(5), total_price |-> FromInt(5)],
     [id |-> 4, order_id |-> "Y", product_name |-> "abaya", quantity |-> 1,
      meters |-> Null, unit_price |-> FromInt(5), total_price |-> FromInt(5)]}

\* ids below this one belong to the rows stored initially
FirstNewRowId == 1 + Cardinality(InitItems)

\* Orders and Products as constructed: useState([]), useState(true)
ListPageInit == [pc |-> "mount", loading |-> TRUE, rows |-> <<>>, failed |-> FALSE, reads |-> 0]

\* OrderDetails as constructed: useState(null), useState(true)
NoOrder == <<>>

DetailsPageInit(id) ==
    [id |-> id, pc |-> "mount", loading |-> TRUE, order |-> NoOrder, orderData |-> <<>>,
     failed |-> FALSE, reads |-> 0]

\* the data of a read's response: rows, or null
Rows(q) == [ok |-> TRUE, rows |-> q]

NullData == [ok |-> FALSE, rows |-> <<>>]

\* Dashboard as constructed: useState({ totalOrders: 0, ... })
NoStats ==
    [totalOrders |-> 0, totalRevenue |-> Zero, totalCustomers |-> 0,
     pendingOrders |-> 0, completedOrders |-> 0]

DashboardInit == [pc |-> "mount", stats |-> NoStats, orders |-> NullData, customers |-> NullData]

\* the response of signIn without error
NoError == [error |-> FALSE, message |-> ""]

\* Login as constructed: useState(''), useState(''), useState(false)
LoginInit ==
    [email |-> "", password |-> "", loading |-> FALSE, pc |-> "idle", location |-> "login",
     toasts |-> <<>>, result |-> NoError, attempts |-> 0]

ViewsInit ==
    /\ ordersPage = ListPageInit
    /\ productsPage = ListPageInit
    /\ detailsPage = DetailsPageInit(NoId)
    /\ dashboard = DashboardInit
    /\ loginPage = LoginInit

Init ==
    /\ orders = InitOrders
    /\ order_items = InitItems
    /\ nextRowId = FirstNewRowId
    /\ routeId \in {r \in [Sessions -> OrderIds \cup {NoId}] : \A s \in Sessions : s # 1 => r[s] = "X"}
    /\ form = [s \in Sessions |-> DefaultValues]
    /\ errors = [s \in Sessions |-> {}]
    /\ initialLoading = [s \in Sessions |-> TRUE]
    /\ loading = [s \in Sessions |-> FALSE]
    /\ pc = [s \in Sessions |-> "mount"]
    /\ fetched = [s \in Sessions |-> NothingFetched]
    /\ runs = [s \in Sessions |-> <<>>]
    /\ toasts = [s \in Sessions |-> <<>>]
    /\ location = [s \in Sessions |-> "editor"]
    /\ edits = [s \in Sessions |-> 0]
    /\ ViewsInit

(***************************************************************************)
(* fetchOrder: the mount effect and its two reads.                         *)
(***************************************************************************)
ItemsOf(o) == {r \in order_items : r.order_id = o}

\* useEffect: fetchOrder() when the route has an id; the order read is issued
Mount(s) ==
    /\ pc[s] = "mount"
    /\ routeId[s] # NoId
    /\ pc' = [pc EXCEPT ![s] = "fetchOrder"]
    /\ UNCHANGED <<viewVars, gatewayVars, routeId, form, errors, initialLoading, loading, fetched,
                   runs, toasts, location, edits>>

\* catch and finally of fetchOrder
FetchFailed(s) ==
    /\ toasts' = [toasts EXCEPT ![s] = Append(@, "load_error")]
    /\ initialLoading' = [initialLoading EXCEPT ![s] = FALSE]
    /\ pc' = [pc EXCEPT ![s] = "idle"]
    /\ UNCHANGED <<viewVars, gatewayVars, routeId, form, errors, loading, fetched, runs, location, edits>>

\* the order read returns; on success the item read is issued
FetchOrderReturn(s, ok) ==
    /\ pc[s] = "fetchOrder"
    /\ IF ok
       THEN /\ fetched' = [fetched EXCEPT ![s].orderData = orders[routeId[s]]]
            /\ pc' = [pc EXCEPT ![s] = "fetchItems"]
            /\ UNCHANGED <<viewVars, gatewayVars, routeId, form, errors, initialLoading, loading,
                           runs, toasts, location, edits>>
       ELSE FetchFailed(s)

\* form.reset(...) argument built from orderData and itemsData
SeedForm(orderData, itemsData) ==
    [customer_name |-> orderData.customer_name,
     customer_phone |-> orderData.customer_phone,
     status |-> orderData.status,
     fabric_price |-> OrZero(ToNumber(orderData.fabric_price)),
     tailoring_price |-> OrZero(ToNumber(orderData.tailoring_price)),
     extra_costs |-> OrZero(ToNumber(orderData.extra_costs)),
     tax_amount |-> OrZero(ToNumber(orderData.tax_amount)),
     order_items |-> [k \in 1..Len(itemsData) |->
                        [product_name |-> itemsData[k].product_name,
                         quantity |-> itemsData[k].quantity,
                         meters |-> OrZero(ToNumber(itemsData[k].meters)),
                         unit_price |-> ToNumber(itemsData[k].unit_price)]]]

\* the item read returns (rows in any order); on success the form is seeded
FetchItemsReturn(s, ok) ==
    /\ pc[s] = "fetchItems"
    /\ IF ok
       THEN /\ \E itemsData \in Orderings(ItemsOf(routeId[s])) :
                 /\ fetched' = [fetched EXCEPT ![s].itemsData = itemsData]
                 /\ form' = [form EXCEPT ![s] = SeedForm(fetched[s].orderData, itemsData)]
            /\ initialLoading' = [initialLoading EXCEPT ![s] = FALSE]
            /\ pc' = [pc EXCEPT ![s] = "idle"]
            /\ UNCHANGED <<viewVars, gatewayVars, routeId, errors, loading, runs, toasts, location, edits>>
       ELSE FetchFailed(s)

(***************************************************************************)
(* orderSchema and form.handleSubmit(onSubmit).                            *)
(***************************************************************************)
FieldError(invalid, path) == IF invalid THEN {path} ELSE {}

\* a schema whose customer_name is a plain z.string()
HeaderErrorsNameOptional(f) ==
    FieldError(f.customer_phone = "", <<"customer_phone">>)
    \cup FieldError(f.status \notin Statuses, <<"status">>)
    \cup UNION {FieldError(BelowZero(f[p]), <<p>>) : p \in PriceFields}

\* customer_name, customer_phone: min(1); status: enum; the four prices: min(0)
HeaderErrors(f) ==
    FieldError(f.customer_name = "", <<"customer_name">>)
    \cup FieldError(f.customer_phone = "", <<"customer_phone">>)
    \cup FieldError(f.status \notin Statuses, <<"status">>)
    \cup UNION {FieldError(BelowZero(f[p]), <<p>>) : p \in PriceFields}

\* a schema whose quantity is a plain z.number()
ItemErrorsQuantityUnchecked(items) ==
    UNION {FieldError(items[i].product_name = "", <<"order_items", i, "product_name">>)
           \cup FieldError(BelowZero(items[i].unit_price), <<"order_items", i, "unit_price">>)
           : i \in 1..Len(items)}

\* a schema whose order_items array carries .min(1)
ItemErrorsAtLeastOne(items) ==
    FieldError(items = <<>>, <<"order_items">>)
    \cup UNION {FieldError(items[i].product_name = "", <<"order_items", i, "product_name">>)
                \cup FieldError(items[i].quantity < 1, <<"order_items", i, "quantity">>)
                \cup FieldError(BelowZero(items[i].unit_price), <<"order_items", i, "unit_price">>)
                : i \in 1..Len(items)}

\* each item: product_name min(1), quantity min(1), unit_price min(0)
ItemErrors(items) ==
    UNION {FieldError(items[i].product_name = "", <<"order_items", i, "product_name">>)
           \cup FieldError(items[i].quantity < 1, <<"order_items", i, "quantity">>)
           \cup FieldError(BelowZero(items[i].unit_price), <<"order_items", i, "unit_price">>)
           : i \in 1..Len(items)}

SchemaErrors(f) == HeaderErrors(f) \cup ItemErrors(f.order_items)

Ops == {"update", "delete", "insert"}

\* an onSubmit that inserts the new rows before it deletes the old ones
ContinueInsertBeforeDelete(op, error) ==
    IF error THEN "catch"
    ELSE CASE op = "update" -> "insert"
           [] op = "insert" -> "delete"
           [] op = "delete" -> "success"

\* an onSubmit without its "if (error) throw error" lines
ContinueIgnoresError(op, error) ==
    CASE op = "update" -> "delete"
      [] op = "delete" -> "insert"
      [] op = "insert" -> IF error THEN "catch" ELSE "success"

\* an onSubmit without "if (itemsError) throw itemsError" after the insert
ContinueAfterInsertError(op, error) ==
    CASE op = "update" -> IF error THEN "catch" ELSE "delete"
      [] op = "delete" -> IF error THEN "catch" ELSE "insert"
      [] op = "insert" -> "success"

\* an onSubmit that issues a failed write again
ContinueRetriesOnError(op, error) ==
    IF error THEN op
    ELSE CASE op = "update" -> "delete"
           [] op = "delete" -> "insert"
           [] op = "insert" -> "success"

\* what onSubmit does when the response to the awaited write arrives
Continue(op, error) ==
    IF error THEN "catch"
    ELSE CASE op = "update" -> "delete"
           [] op = "delete" -> "insert"
           [] op = "insert" -> "success"

\* a write is in flight from its issue until the handler has its response
InFlight(run) == {op \in Ops : run.st[op] # "none" /\ op \notin run.returned}

Running(run) == run.outcome = "running"

\* onSubmit(data) is entered: loading is set and the header update is issued.
\* before and beforeOrder record the order's stored rows and header at that
\* moment; they are kept for the latest call only and are not program state.
OnSubmit(s, data) ==
    /\ loading' = [loading EXCEPT ![s] = TRUE]
    /\ runs' = [runs EXCEPT ![s] =
          Append([k \in 1..Len(@) |->
                    [@[k] EXCEPT !.data = DefaultValues, !.before = {}, !.beforeOrder = <<>>]],
                 [data |-> data,
                  totalPieces |-> TotalPieces(form[s].order_items),
                  totalPrice |-> TotalPrice(form[s]),
                  before |-> {r \in order_items : r.order_id = routeId[s]},
                  beforeOrder |-> IF routeId[s] \in OrderIds THEN orders[routeId[s]] ELSE <<>>,
                  st |-> [op \in Ops |-> IF op = "update" THEN "sent" ELSE "none"],
                  returned |-> {},
                  issued |-> <<"update">>,
                  outcome |-> "running"])]

\* a submit button without its disabled attribute
SubmitAlwaysEnabled(s) == TRUE

\* <Button type="submit" disabled={loading}>
SubmitEnabled(s) == ~loading[s]

\* form.handleSubmit(onSubmit): the resolver validates; onSubmit runs only on
\* valid data, otherwise the field errors are set.  The submit button is
\* disabled while loading.
HandleSubmit(s) ==
    /\ Editable(s)
    /\ SubmitEnabled(s)
    /\ Len(runs[s]) < MaxSubmits
    /\ errors' = [errors EXCEPT ![s] = SchemaErrors(form[s])]
    /\ IF SchemaErrors(form[s]) = {}
       THEN OnSubmit(s, form[s])
       ELSE UNCHANGED <<loading, runs>>
    /\ UNCHANGED <<viewVars, gatewayVars, routeId, form, initialLoading, pc, fetched, toasts,
                   location, edits>>

(***************************************************************************)
(* The gateway executes a write.  A statement is atomic: it is applied and *)
(* answered without error, or answered with an error and not applied.      *)
(***************************************************************************)
\* an update payload without total_pieces and total_price
UpdateOrderKeepsTotals(o, run) ==
    [o EXCEPT !.customer_name = run.data.customer_name,
              !.customer_phone = run.data.customer_phone,
              !.status = run.data.status,
              !.fabric_price = run.data.fabric_price,
              !.tailoring_price = run.data.tailoring_price,
              !.extra_costs = run.data.extra_costs,
              !.tax_amount = run.data.tax_amount]

\* .update({...}).eq('id', id)
UpdateOrder(o, run) ==
    [o EXCEPT !.customer_name = run.data.customer_name,
              !.customer_phone = run.data.customer_phone,
              !.status = run.data.status,
              !.total_pieces = run.totalPieces,
              !.total_price = run.totalPrice,
              !.fabric_price = run.data.fabric_price,
              !.tailoring_price = run.data.tailoring_price,
              !.extra_costs = run.data.extra_costs,
              !.tax_amount = run.data.tax_amount]

\* a map that leaves quantity to the column default
OrderItemRowsUnitQuantity(id, items, firstId) ==
    {[id |-> firstId + k - 1,
      order_id |-> id,
      product_name |-> items[k].product_name,
      quantity |-> 1,
      meters |-> items[k].meters,
      unit_price |-> items[k].unit_price,
      total_price |-> FMul(items[k].quantity, items[k].unit_price)] : k \in 1..Len(items)}

\* a map whose total_price is the unit price
OrderItemRowsTotalIsUnitPrice(id, items, firstId) ==
    {[id |-> firstId + k - 1,
      order_id |-> id,
      product_name |-> items[k].product_name,
      quantity |-> items[k].quantity,
      meters |-> items[k].meters,
      unit_price |-> items[k].unit_price,
      total_price |-> items[k].unit_price] : k \in 1..Len(items)}

\* data.order_items.map(...): the rows to insert, given the ids the gateway generates
OrderItemRows(id, items, firstId) ==
    {[id |-> firstId + k - 1,
      order_id |-> id,
      product_name |-> items[k].product_name,
      quantity |-> items[k].quantity,
      meters |-> items[k].meters,
      unit_price |-> items[k].unit_price,
      total_price |-> FMul(items[k].quantity, items[k].unit_price)] : k \in 1..Len(items)}

\* a delete filtered on the rows' own id, which no order id equals
DeleteItemsByRowId(rows, id) == rows

\* a delete without its filter
DeleteEveryItem(rows, id) == {}

\* .delete().eq('order_id', id)
DeleteItems(rows, id) == {r \in rows : r.order_id # id}

Apply(s, run, op) ==
    CASE op = "update" ->
            /\ orders' = [o \in OrderIds |->
                            IF o = routeId[s] THEN UpdateOrder(orders[o], run) ELSE orders[o]]
            /\ UNCHANGED <<order_items, nextRowId>>
      [] op = "delete" ->
            /\ order_items' = DeleteItems(order_items, routeId[s])
            /\ UNCHANGED <<orders, nextRowId>>
      [] op = "insert" ->
            /\ order_items' = order_items
                                \cup OrderItemRows(routeId[s], run.data.order_items, nextRowId)
            /\ nextRowId' = nextRowId + Len(run.data.order_items)
            /\ UNCHANGED orders

Gateway(s, k, op, ok) ==
    /\ k \in 1..Len(runs[s])
    /\ runs[s][k].st[op] = "sent"
    /\ IF ok THEN Apply(s, runs[s][k], op) ELSE UNCHANGED gatewayVars
    /\ runs' = [runs EXCEPT ![s][k].st[op] = IF ok THEN "ok" ELSE "error"]
    /\ UNCHANGED <<viewVars, routeId, form, errors, initialLoading, loading, pc, fetched,
                   toasts, location, edits>>

(***************************************************************************)
(* onSubmit resumes with the response to the write it awaits.              *)
(***************************************************************************)
\* an onSubmit whose continuation is dropped once the component has unmounted
ContinuesOnlyWhileMounted(s) == location[s] = "editor"

\* onSubmit holds no unmount check and no AbortController: the promise it awaits
\* settles and the function goes on whether or not EditOrder is still mounted
ContinuesAfterUnmount(s) == TRUE

Resume(s, k, op) ==
    /\ k \in 1..Len(runs[s])
    /\ ContinuesAfterUnmount(s)
    /\ Running(runs[s][k])
    /\ op \in InFlight(runs[s][k])
    /\ runs[s][k].st[op] \in {"ok", "error"}
    /\ LET next == Continue(op, runs[s][k].st[op] = "error")
       IN  CASE next \in Ops ->
                  \* the next write is issued
                  /\ runs' = [runs EXCEPT ![s][k].returned = @ \cup {op},
                                          ![s][k].st[next] = "sent",
                                          ![s][k].issued = Append(@, next)]
                  /\ UNCHANGED <<toasts, location, loading>>
             [] next = "success" ->
                  \* toast, navigate('/dashboard/orders'), finally setLoading(false)
                  /\ runs' = [runs EXCEPT ![s][k].returned = @ \cup {op},
                                          ![s][k].outcome = "saved"]
                  /\ toasts' = [toasts EXCEPT ![s] = Append(@, "saved")]
                  /\ location' = [location EXCEPT ![s] = "orders"]
                  /\ loading' = [loading EXCEPT ![s] = FALSE]
             [] next = "catch" ->
                  \* destructive toast, finally setLoading(false)
                  /\ runs' = [runs EXCEPT ![s][k].returned = @ \cup {op},
                                          ![s][k].outcome = "failed"]
                  /\ toasts' = [toasts EXCEPT ![s] = Append(@, "save_error")]
                  /\ loading' = [loading EXCEPT ![s] = FALSE]
                  /\ UNCHANGED location
    /\ UNCHANGED <<viewVars, gatewayVars, routeId, form, errors, initialLoading, pc, fetched, edits>>

\* the back and cancel buttons: navigate('/dashboard/orders')
Cancel(s) ==
    /\ Editable(s)
    /\ location' = [location EXCEPT ![s] = "orders"]
    /\ UNCHANGED <<viewVars, gatewayVars, routeId, form, errors, initialLoading, loading, pc,
                   fetched, runs, toasts, edits>>

(***************************************************************************)
(* Spec: one editor session against the gateway.                           *)
(***************************************************************************)
Next ==
    \/ Mount(1)
    \/ \E ok \in BOOLEAN : FetchOrderReturn(1, ok)
    \/ \E ok \in BOOLEAN : FetchItemsReturn(1, ok)
    \/ AppendItem(1, TRUE)
    \/ \E i \in 1..MaxItems : RemoveItem(1, i, TRUE)
    \/ \E i \in 1..MaxItems, v \in {"", "cap"} : SetItemField(1, i, "product_name", v, TRUE)
    \/ \E i \in 1..MaxItems, v \in {0, 3} : SetItemField(1, i, "quantity", v, TRUE)
    \/ \E i \in 1..MaxItems, v \in {FromInt(-1), Tenth} :
          SetItemField(1, i, "unit_price", v, TRUE)
    \/ \E v \in {"", "Omar"} : SetField(1, "customer_name", v, TRUE)
    \/ SetField(1, "customer_phone", "", TRUE)
    \/ SetField(1, "status", "completed", TRUE)
    \/ \E v \in {FromInt(-1), Tenth} : SetField(1, "tax_amount", v, TRUE)
    \/ HandleSubmit(1)
    \/ \E k \in 1..MaxSubmits, op \in Ops, ok \in BOOLEAN : Gateway(1, k, op, ok)
    \/ \E k \in 1..MaxSubmits, op \in Ops : Resume(1, k, op)
    \/ Cancel(1)

Spec == Init /\ [][Next]_vars

(***************************************************************************)
(* SpecForm: one editor, loaded and edited, never submitted.               *)
(***************************************************************************)
FormQuantities == {1, 2}
FormPrices == {Tenth, TwoTenths, ThreeTenths}

FormNext ==
    \/ Mount(1)
    \/ \E ok \in BOOLEAN : FetchOrderReturn(1, ok)
    \/ \E ok \in BOOLEAN : FetchItemsReturn(1, ok)
    \/ AppendItem(1, FALSE)
    \/ \E i \in 1..MaxItems : RemoveItem(1, i, FALSE)
    \/ \E i \in 1..MaxItems, v \in FormQuantities : SetItemField(1, i, "quantity", v, FALSE)
    \/ \E i \in 1..MaxItems, v \in FormPrices : SetItemField(1, i, "unit_price", v, FALSE)
    \/ \E fld \in {"fabric_price", "tax_amount"} : SetField(1, fld, Tenth, FALSE)

SpecForm == Init /\ [][FormNext]_vars

(***************************************************************************)
(* The read-only screens: Orders, Products and OrderDetails.               *)
(***************************************************************************)
\* JavaScript values a property lookup can give
JsString(t) == <<"string", t>>

Undefined == <<"undefined">>

ObjectPrototype == <<"object", "Object.prototype">>

\* table[key] for a key the object literal does not define: the lookup goes
\* on to Object.prototype
Inherited(key) ==
    CASE key = "__proto__" -> ObjectPrototype
      [] key \in {"constructor", "toString", "valueOf", "hasOwnProperty"} -> <<"function", key>>
      [] OTHER -> Undefined

\* table[key]
Get(table, key) == IF key \in DOMAIN table THEN JsString(table[key]) ELSE Inherited(key)

Truthy(v) == v # Undefined /\ v # JsString("")

\* a || b
Or(a, b) == IF Truthy(a) THEN a ELSE b

variants == [pending |-> "outline", completed |-> "default", cancelled |-> "destructive"]

\* the labels, in English
labels == [pending |-> "in progress", completed |-> "completed", cancelled |-> "cancelled"]

\* <Badge variant={variants[status] || "secondary"}>{labels[status] || status}</Badge>
getStatusBadge(status) ==
    [variant |-> Or(Get(variants, status), JsString("secondary")),
     label |-> Or(Get(labels, status), JsString(status))]

\* React renders a string child as text and nothing for undefined or a
\* function; a plain object as child makes the render throw
RendersChild(v) == v[1] # "object"

\* the rows of table products
StoredProducts == <<[id |-> "p1", name |-> "thobe"], [id |-> "p2", name |-> "abaya"]>>

\* what a read of a list resolves to
ReadResults == {"rows", "null", "error"}

\* useEffect(() => { fetch...() }, []): the read is issued
ListMount(page) == [page EXCEPT !.pc = "fetch", !.reads = @ + 1]

\* a finally that is the last statement of the try block instead
LoadingAfterReadOnlyOnSuccess(res) == res = "error"

\* a fetch without its finally block
LoadingNeverCleared(res) == TRUE

\* finally { setLoading(false) }
LoadingAfterRead(res) == FALSE

\* if (error) throw error; setOrders(data || []); catch: console.error; finally
ListReturn(page, res, data) ==
    [page EXCEPT !.pc = "done",
                 !.rows = CASE res = "rows" -> data
                            [] res = "null" -> <<>>
                            [] res = "error" -> @,
                 !.failed = (res = "error"),
                 !.loading = LoadingAfterRead(res)]

OrdersMount ==
    /\ ordersPage.pc = "mount"
    /\ ordersPage' = ListMount(ordersPage)
    /\ UNCHANGED <<gatewayVars, routeId, form, errors, initialLoading, loading, pc, fetched,
                   runs, toasts, location, edits, dashboard, loginPage, productsPage, detailsPage>>

\* fetchOrders resumes with the result of the read
FetchOrdersReturn(res) ==
    /\ ordersPage.pc = "fetch"
    /\ \E q \in Orderings(OrderIds) :
          ordersPage' = ListReturn(ordersPage, res, [k \in 1..Len(q) |-> orders[q[k]]])
    /\ UNCHANGED <<gatewayVars, routeId, form, errors, initialLoading, loading, pc, fetched,
                   runs, toasts, location, edits, dashboard, loginPage, productsPage, detailsPage>>

ProductsMount ==
    /\ productsPage.pc = "mount"
    /\ productsPage' = ListMount(productsPage)
    /\ UNCHANGED <<gatewayVars, routeId, form, errors, initialLoading, loading, pc, fetched,
                   runs, toasts, location, edits, dashboard, loginPage, ordersPage, detailsPage>>

\* fetchProducts resumes with the result of the read
FetchProductsReturn(res) ==
    /\ productsPage.pc = "fetch"
    /\ productsPage' = ListReturn(productsPage, res, StoredProducts)
    /\ UNCHANGED <<gatewayVars, routeId, form, errors, initialLoading, loading, pc, fetched,
                   runs, toasts, location, edits, dashboard, loginPage, ordersPage, detailsPage>>

\* useEffect: if (id) fetchOrderDetails(); the order read is issued
DetailsMount ==
    /\ detailsPage.pc = "mount"
    /\ detailsPage.id # NoId
    /\ detailsPage' = [detailsPage EXCEPT !.pc = "fetchOrder", !.reads = @ + 1]
    /\ UNCHANGED <<gatewayVars, routeId, form, errors, initialLoading, loading, pc, fetched,
                   runs, toasts, location, edits, dashboard, loginPage, ordersPage, productsPage>>

\* setOrder({...orderData, order_items: itemsData || []})
OrderDetail(orderData, itemsData) == [header |-> orderData, order_items |-> itemsData]

\* a fetchOrderDetails that sets the order from what it has when a read fails
DetailsFailedKeepsHeader ==
    [detailsPage EXCEPT !.pc = "done", !.failed = TRUE, !.loading = FALSE,
                        !.order = OrderDetail(detailsPage.orderData, <<>>)]

\* catch and finally of fetchOrderDetails
DetailsFailed == [detailsPage EXCEPT !.pc = "done", !.failed = TRUE,
                                     !.loading = LoadingAfterRead("error")]

\* the order read returns; on success the item read is issued
FetchOrderDetailsOrderReturn(ok) ==
    /\ detailsPage.pc = "fetchOrder"
    /\ detailsPage' = IF ok
                      THEN [detailsPage EXCEPT !.pc = "fetchItems", !.reads = @ + 1,
                                               !.orderData = orders[detailsPage.id]]
                      ELSE DetailsFailed
    /\ UNCHANGED <<gatewayVars, routeId, form, errors, initialLoading, loading, pc, fetched,
                   runs, toasts, location, edits, dashboard, loginPage, ordersPage, productsPage>>


\* the item read returns
FetchOrderDetailsItemsReturn(res) ==
    /\ detailsPage.pc = "fetchItems"
    /\ \E itemsData \in Orderings(ItemsOf(detailsPage.id)) :
          detailsPage' =
             IF res = "error"
             THEN DetailsFailed
             ELSE [detailsPage EXCEPT
                      !.pc = "done",
                      !.order = OrderDetail(detailsPage.orderData,
                                            IF res = "rows" THEN itemsData ELSE <<>>),
                      !.loading = LoadingAfterRead(res)]
    /\ UNCHANGED <<gatewayVars, routeId, form, errors, initialLoading, loading, pc, fetched,
                   runs, toasts, location, edits, dashboard, loginPage, ordersPage, productsPage>>

\* what OrderDetails returns from its render
DetailsView ==
    IF detailsPage.loading THEN "loading"
    ELSE IF detailsPage.order = NoOrder THEN "not_found"
    ELSE IF RendersChild(getStatusBadge(detailsPage.order.header.status).label) THEN "order"
    ELSE "throws"

\* what Orders returns from its render
OrdersView ==
    IF ordersPage.loading THEN "loading"
    ELSE IF \A k \in 1..Len(ordersPage.rows) :
               RendersChild(getStatusBadge(ordersPage.rows[k].status).label)
         THEN "table"
         ELSE "throws"

\* status values a stored order can carry (the column is free text)
StoredStatuses == {"pending", "completed", "cancelled", "archived", "constructor", "__proto__"}

ViewsStoredInit ==
    /\ \E sx, sy \in StoredStatuses :
          orders = [InitOrders EXCEPT !["X"].status = sx, !["Y"].status = sy]
    /\ order_items = InitItems
    /\ nextRowId = FirstNewRowId
    /\ routeId = [s \in Sessions |-> "X"]
    /\ form = [s \in Sessions |-> DefaultValues]
    /\ errors = [s \in Sessions |-> {}]
    /\ initialLoading = [s \in Sessions |-> TRUE]
    /\ loading = [s \in Sessions |-> FALSE]
    /\ pc = [s \in Sessions |-> "mount"]
    /\ fetched = [s \in Sessions |-> NothingFetched]
    /\ runs = [s \in Sessions |-> <<>>]
    /\ toasts = [s \in Sessions |-> <<>>]
    /\ location = [s \in Sessions |-> "editor"]
    /\ edits = [s \in Sessions |-> 0]
    /\ ordersPage = ListPageInit
    /\ productsPage = ListPageInit
    /\ detailsPage \in {DetailsPageInit(id) : id \in OrderIds \cup {NoId}}
    /\ dashboard = DashboardInit
    /\ loginPage = LoginInit

ViewsNext ==
    \/ OrdersMount
    \/ \E res \in ReadResults : FetchOrdersReturn(res)
    \/ ProductsMount
    \/ \E res \in ReadResults : FetchProductsReturn(res)
    \/ DetailsMount
    \/ \E ok \in BOOLEAN : FetchOrderDetailsOrderReturn(ok)
    \/ \E res \in ReadResults : FetchOrderDetailsItemsReturn(res)

SpecViews == ViewsStoredInit /\ [][ViewsNext]_vars

(***************************************************************************)
(* Totals (checked under SpecForm).                                        *)
(***************************************************************************)
Permute(seq, p) == [k \in 1..Len(seq) |-> seq[p[k]]]

Reorderings(seq) == {Permute(seq, p) : p \in Orderings(1..Len(seq))}

RECURSIVE LineSum(_, _)
\* the sum of quantity * unit_price over the first n items, taken from the last
LineSum(items, n) ==
    IF n = 0 THEN Zero
    ELSE FAdd(LineSum(items, n - 1), FMul(items[n].quantity, items[n].unit_price))

RECURSIVE QuantitySum(_, _)
\* the sum of quantity over the first n items, taken from the last
QuantitySum(items, n) ==
    IF n = 0 THEN 0 ELSE items[n].quantity + QuantitySum(items, n - 1)

\* C1: itemsTotal is the sum of quantity * unit_price, totalPrice is itemsTotal
\* plus the four surcharges, and both are the same for every permutation of the
\* item list.
C1_TotalsSameForEveryPermutation ==
    LET f == form[1]
        items == f.order_items
    IN  /\ ItemsTotal(items) = LineSum(items, Len(items))
        /\ TotalPrice(f) =
             FAdd(FAdd(FAdd(FAdd(ItemsTotal(items), f.fabric_price), f.tailoring_price),
                       f.extra_costs), f.tax_amount)
        /\ \A q \in Reorderings(items) :
             /\ ItemsTotal(q) = ItemsTotal(items)
             /\ TotalPrice([f EXCEPT !.order_items = q]) = TotalPrice(f)

\* C2: totalPieces is the sum of quantity over the current line items (0 for an
\* empty list) after any sequence of append, remove and quantity edits.
C2_TotalPiecesIsQuantitySum ==
    LET items == form[1].order_items
    IN  /\ TotalPieces(items) = QuantitySum(items, Len(items))
        /\ items = <<>> => TotalPieces(items) = 0

\* an item appended, its quantity edited to 2, in a list of three
C2_Witness ==
    LET items == form[1].order_items
    IN  /\ Len(items) = 3
        /\ items[3].product_name = "" /\ items[3].quantity = 2
        /\ items[1].quantity = 2 /\ items[2].quantity = 2
        /\ TotalPieces(items) = 6

C3_Example(f) ==
    /\ Len(f.order_items) = 2
    /\ f.order_items[1].quantity = 2 /\ f.order_items[1].unit_price = FromInt(10)
    /\ f.order_items[2].quantity = 1 /\ f.order_items[2].unit_price = FromInt(5)
    /\ f.fabric_price = FromInt(3) /\ f.tailoring_price = FromInt(2)
    /\ f.extra_costs = FromInt(0) /\ f.tax_amount = FromInt(1)

\* C3: items [{2, 10}, {1, 5}] with surcharges fabric 3, tailoring 2, extra 0,
\* tax 1 give totalPieces 3, itemsTotal 25 and totalPrice 31.
C3_ExampleTotals ==
    C3_Example(form[1]) =>
        /\ TotalPieces(form[1].order_items) = 3
        /\ ItemsTotal(form[1].order_items) = FromInt(25)
        /\ TotalPrice(form[1]) = FromInt(31)

C3_Witness == C3_Example(form[1]) /\ ~initialLoading[1]


(***************************************************************************)
(* The submission protocol (checked under Spec).                           *)
(***************************************************************************)
HasRun(s) == runs[s] # <<>>

LatestRun(s) == runs[s][Len(runs[s])]

Issued(run, op) == run.st[op] # "none"

ReturnedOk(run, op) == op \in run.returned /\ run.st[op] = "ok"

IsPrefix(a, b) == Len(a) <= Len(b) /\ \A i \in 1..Len(a) : a[i] = b[i]

\* the latest onSubmit of the session has ended in its catch branch
LatestFailed(s) == HasRun(s) /\ LatestRun(s).outcome = "failed"

\* the latest onSubmit of the session has ended after its three writes
LatestSaved(s) == HasRun(s) /\ LatestRun(s).outcome = "saved"

\* the stored header o holds the values submitted as data, totals included
HoldsSubmitted(o, data) ==
    /\ o.customer_name = data.customer_name
    /\ o.customer_phone = data.customer_phone
    /\ o.status = data.status
    /\ o.fabric_price = data.fabric_price
    /\ o.tailoring_price = data.tailoring_price
    /\ o.extra_costs = data.extra_costs
    /\ o.tax_amount = data.tax_amount
    /\ o.total_pieces = QuantitySum(data.order_items, Len(data.order_items))
    /\ o.total_price =
          FAdd(FAdd(FAdd(FAdd(LineSum(data.order_items, Len(data.order_items)),
                              data.fabric_price), data.tailoring_price),
                    data.extra_costs), data.tax_amount)

\* C4: within one onSubmit the writes are issued in the order update, delete,
\* insert; the delete only after the update returned without error, the insert
\* only after the delete returned without error; never two in flight.
C4_WritesStrictlySequential ==
    \A k \in 1..Len(runs[1]) :
        LET run == runs[1][k]
        IN  /\ IsPrefix(run.issued, <<"update", "delete", "insert">>)
            /\ \A op \in Ops : Issued(run, op) <=> \E i \in 1..Len(run.issued) : run.issued[i] = op
            /\ Issued(run, "delete") => ReturnedOk(run, "update")
            /\ Issued(run, "insert") => ReturnedOk(run, "delete")
            /\ Cardinality(InFlight(run)) <= 1

\* the insert is in flight, after the update and the delete returned without error
C4_Witness ==
    /\ HasRun(1)
    /\ LatestRun(1).issued = <<"update", "delete", "insert">>
    /\ InFlight(LatestRun(1)) = {"insert"}
    /\ ReturnedOk(LatestRun(1), "update") /\ ReturnedOk(LatestRun(1), "delete")

\* C5: once a step returns an error no later step is issued, and what the
\* completed steps did stays in the backend (nothing is written to undo it).
C5_ErrorStopsLaterSteps ==
    /\ \A k \in 1..Len(runs[1]) :
          LET run == runs[1][k]
          IN  /\ run.st["update"] = "error" => ~Issued(run, "delete") /\ ~Issued(run, "insert")
              /\ run.st["delete"] = "error" => ~Issued(run, "insert")
    /\ LatestFailed(1) =>
          LET run == LatestRun(1)
              o == orders[routeId[1]]
          IN  /\ Cardinality(InFlight(run)) = 0
              /\ IF run.st["update"] = "ok"
                 THEN HoldsSubmitted(o, run.data)
                 ELSE o = run.beforeOrder
              /\ IF run.st["delete"] = "ok"
                 THEN ItemsOf(routeId[1]) \cap run.before = {}
                 ELSE ItemsOf(routeId[1]) = run.before

\* a submission that changed the header and then failed at a later step
C5_Witness ==
    /\ LatestFailed(1)
    /\ LatestRun(1).st["update"] = "ok"
    /\ orders[routeId[1]] # LatestRun(1).beforeOrder
    /\ \E op \in {"delete", "insert"} : LatestRun(1).st[op] = "error"

\* C6: header update succeeded, item delete failed: at the end of the submission
\* the stored header holds the submitted values (new totals included) and the
\* stored item rows of the order are exactly the pre-edit set.
C6_DeleteFailureKeepsOldItems ==
    (LatestFailed(1) /\ LatestRun(1).st["update"] = "ok" /\ LatestRun(1).st["delete"] = "error")
        => /\ HoldsSubmitted(orders[routeId[1]], LatestRun(1).data)
           /\ ItemsOf(routeId[1]) = LatestRun(1).before

\* the delete failed after an update that changed the stored totals
C6_Witness ==
    /\ LatestFailed(1)
    /\ LatestRun(1).st["update"] = "ok" /\ LatestRun(1).st["delete"] = "error"
    /\ LatestRun(1).before # {}
    /\ orders[routeId[1]].total_pieces # LatestRun(1).beforeOrder.total_pieces
    /\ orders[routeId[1]].total_price # LatestRun(1).beforeOrder.total_price

\* C7: update and delete succeeded, insert failed: the submission ends with the
\* header updated and no item row stored for the order; the pre-edit rows are
\* not restored.
C7_InsertFailureLeavesNoItems ==
    (LatestFailed(1) /\ LatestRun(1).st["insert"] = "error")
        => /\ LatestRun(1).st["update"] = "ok" /\ LatestRun(1).st["delete"] = "ok"
           /\ HoldsSubmitted(orders[routeId[1]], LatestRun(1).data)
           /\ ItemsOf(routeId[1]) = {}

\* the insert of a non-empty list failed for an order that had rows
C7_Witness ==
    /\ LatestFailed(1)
    /\ LatestRun(1).st["insert"] = "error"
    /\ LatestRun(1).before # {}
    /\ LatestRun(1).data.order_items # <<>>
    /\ ItemsOf(routeId[1]) = {}

Triple(r) == <<r.product_name, r.quantity, r.unit_price>>

\* how many rows of a set carry the triple t
Count(rows, t) == Cardinality({r \in rows : Triple(r) = t})

SameMultiset(A, B) == \A t \in {Triple(r) : r \in A \cup B} : Count(A, t) = Count(B, t)

\* the order was loaded and the submitted item list is the loaded one
SubmittedAsLoaded(s) ==
    /\ HasRun(s)
    /\ fetched[s].orderData # <<>>
    /\ ~initialLoading[s]
    /\ \A i \in 1..Len(toasts[s]) : toasts[s][i] # "load_error"
    /\ Len(LatestRun(s).data.order_items) = Len(fetched[s].itemsData)
    /\ \A k \in 1..Len(fetched[s].itemsData) :
          Triple(LatestRun(s).data.order_items[k]) = Triple(fetched[s].itemsData[k])

LoadedRows(s) == {fetched[s].itemsData[k] : k \in 1..Len(fetched[s].itemsData)}

\* C8: an order loaded and submitted with its item list unchanged, all three
\* steps succeeding, leaves stored rows with the same multiset of (product name,
\* quantity, unit price) as before, under new row ids.
C8_UnchangedItemsRoundTrip ==
    (LatestSaved(1) /\ SubmittedAsLoaded(1))
        => /\ SameMultiset(ItemsOf(routeId[1]), LoadedRows(1))
           /\ Cardinality(ItemsOf(routeId[1])) = Cardinality(LoadedRows(1))
           /\ \A r \in ItemsOf(routeId[1]) : \A l \in LoadedRows(1) : r.id # l.id

\* saved with the list as loaded, two of the rows carrying the same triple
C8_Witness ==
    /\ LatestSaved(1) /\ SubmittedAsLoaded(1)
    /\ \E a, b \in ItemsOf(routeId[1]) : a # b /\ Triple(a) = Triple(b)

\* C9: a submit with an empty customer name is rejected locally: onSubmit is not
\* called, no write is issued, and customer_name gets a field error.
C9_EmptyNameRejectedLocally ==
    [][(HandleSubmit(1) /\ form[1].customer_name = "")
          => /\ runs' = runs
             /\ loading' = loading
             /\ UNCHANGED gatewayVars
             /\ <<"customer_name">> \in errors'[1]]_vars

\* rejected: the name is empty, its error is shown, nothing was ever submitted
C9_Witness ==
    /\ form[1].customer_name = ""
    /\ ~initialLoading[1]
    /\ <<"customer_name">> \in errors[1]
    /\ runs[1] = <<>>
    /\ orders = InitOrders /\ order_items = InitItems

\* data passes the conditions the schema puts on the named fields
PassesSchema(data) ==
    /\ data.customer_name # ""
    /\ data.customer_phone # ""
    /\ data.status \in {"pending", "completed", "cancelled"}
    /\ \A i \in 1..Len(data.order_items) :
          /\ data.order_items[i].product_name # ""
          /\ data.order_items[i].quantity >= 1
          /\ ~IsNeg(data.order_items[i].unit_price)

\* C10: no write is issued unless the form data passes the schema; so every
\* item row the editor inserted has quantity >= 1 and unit_price >= 0.
C10_WritesOnlyForValidData ==
    /\ HasRun(1) => PassesSchema(LatestRun(1).data)
    /\ \A r \in order_items :
          r.id >= FirstNewRowId => r.quantity >= 1 /\ ~IsNeg(r.unit_price) /\ r.product_name # ""

\* the stored status of order Y fails the schema; it was saved all the same,
\* after the form was made valid
C10_Witness ==
    /\ routeId[1] = "Y"
    /\ InitOrders["Y"].status \notin Statuses
    /\ LatestSaved(1)
    /\ \E r \in order_items : r.id >= FirstNewRowId

(***************************************************************************)
(* SpecTwo: two editor sessions against the same gateway; every read and   *)
(* write succeeds, the steps of the two sessions interleave freely.        *)
(***************************************************************************)
\* the quantity a session types into its first item
TypedQuantity(s) == s + 2

TwoNext ==
    \/ \E s \in Sessions : Mount(s)
    \/ \E s \in Sessions : FetchOrderReturn(s, TRUE)
    \/ \E s \in Sessions : FetchItemsReturn(s, TRUE)
    \/ \E s \in Sessions : SetItemField(s, 1, "quantity", TypedQuantity(s), FALSE)
    \/ \E s \in Sessions : SetField(s, "status", "completed", FALSE)
    \/ \E s \in Sessions : HandleSubmit(s)
    \/ \E s \in Sessions, k \in 1..MaxSubmits, op \in Ops : Gateway(s, k, op, TRUE)
    \/ \E s \in Sessions, k \in 1..MaxSubmits, op \in Ops : Resume(s, k, op)

SpecTwo == Init /\ [][TwoNext]_vars

(***************************************************************************)
(* SpecStored: one editor opens order X, whose stored header and rows are  *)
(* drawn from what the tables can hold: null and non-numeric amounts,      *)
(* fractional prices, any number of rows from none to MaxItems.            *)
(***************************************************************************)
StoredRowChoices ==
    {[id |-> 1, order_id |-> "X", product_name |-> "thobe", quantity |-> 2,
      meters |-> FromInt(3), unit_price |-> FromInt(10), total_price |-> FromInt(20)],
     [id |-> 2, order_id |-> "X", product_name |-> "shirt", quantity |-> 1,
      meters |-> Null, unit_price |-> Tenth, total_price |-> Tenth],
     [id |-> 3, order_id |-> "X", product_name |-> "cap", quantity |-> 1,
      meters |-> Null, unit_price |-> Tenth, total_price |-> Tenth],
     [id |-> 4, order_id |-> "X", product_name |-> "belt", quantity |-> 1,
      meters |-> NotANumber, unit_price |-> NotANumber, total_price |-> Zero],
     [id |-> 5, order_id |-> "X", product_name |-> "scarf", quantity |-> 1,
      meters |-> FromInt(2), unit_price |-> Null, total_price |-> Zero]}

\* what a fetched surcharge column can hold
StoredAmounts == <<Null, NotANumber, FromInt(3)>>

\* the j-th surcharge column of the r-th stored header: over the three headers
\* every column holds each kind of amount once
StoredAmount(j, r) == StoredAmounts[((j + r) % 3) + 1]

StoredInit ==
    /\ \E r \in 0..2 :
          orders = [InitOrders EXCEPT !["X"].fabric_price = StoredAmount(1, r),
                                      !["X"].tailoring_price = StoredAmount(2, r),
                                      !["X"].extra_costs = StoredAmount(3, r),
                                      !["X"].tax_amount = StoredAmount(4, r)]
    /\ order_items \in {rows \in SUBSET StoredRowChoices : Cardinality(rows) <= MaxItems}
    /\ nextRowId = 1 + Cardinality(StoredRowChoices)
    /\ routeId = [s \in Sessions |-> "X"]
    /\ form = [s \in Sessions |-> DefaultValues]
    /\ errors = [s \in Sessions |-> {}]
    /\ initialLoading = [s \in Sessions |-> TRUE]
    /\ loading = [s \in Sessions |-> FALSE]
    /\ pc = [s \in Sessions |-> "mount"]
    /\ fetched = [s \in Sessions |-> NothingFetched]
    /\ runs = [s \in Sessions |-> <<>>]
    /\ toasts = [s \in Sessions |-> <<>>]
    /\ location = [s \in Sessions |-> "editor"]
    /\ edits = [s \in Sessions |-> 0]
    /\ ViewsInit

StoredNext ==
    \/ Mount(1)
    \/ \E ok \in BOOLEAN : FetchOrderReturn(1, ok)
    \/ \E ok \in BOOLEAN : FetchItemsReturn(1, ok)
    \/ AppendItem(1, FALSE)
    \/ \E i \in 1..MaxItems : RemoveItem(1, i, FALSE)
    \/ HandleSubmit(1)
    \/ \E k \in 1..MaxSubmits, op \in Ops : Gateway(1, k, op, TRUE)
    \/ \E k \in 1..MaxSubmits, op \in Ops : Resume(1, k, op)

SpecStored == StoredInit /\ [][StoredNext]_vars

\* both sessions edit the same order and the latest submission of each was saved
BothSaved ==
    /\ routeId[1] = routeId[2]
    /\ LatestSaved(1) /\ LatestSaved(2)

\* the stored rows of order o are one row per entry of the submitted list
RowsAreList(o, items) ==
    /\ Cardinality(ItemsOf(o)) = Len(items)
    /\ SameMultiset(ItemsOf(o), {[at |-> k,
                                  product_name |-> items[k].product_name,
                                  quantity |-> items[k].quantity,
                                  unit_price |-> items[k].unit_price] : k \in 1..Len(items)})

\* C11: two sessions edit the same order and both submissions complete
\* successfully: in every interleaving the stored item rows of the order are
\* exactly the item list of one submission, the later one, and no row of the
\* other submission remains.
C11_LastWriterWinsItemSet ==
    BothSaved => \E s \in Sessions : RowsAreList(routeId[s], LatestRun(s).data.order_items)

\* the sum of quantity * unit_price over rows taken in the order q, in the
\* arithmetic of the stored numbers
RowsTotal(q) == LineSum(q, Len(q))

Outstanding(s, op) == {k \in 1..Len(runs[s]) : op \in InFlight(runs[s][k])}

\* C13: the submit control is disabled for the whole duration of a submission:
\* while an onSubmit call of the session runs, loading is set, no other call of
\* the session is running or has a write outstanding, and at most one update,
\* one delete and one insert of the session are in progress.
C13_OneSubmissionAtATime ==
    /\ \A k \in 1..Len(runs[1]) :
          /\ Running(runs[1][k]) => loading[1]
          /\ k < Len(runs[1]) => ~Running(runs[1][k]) /\ InFlight(runs[1][k]) = {}
    /\ \A op \in Ops : Cardinality(Outstanding(1, op)) <= 1

\* a second submission of the session is under way, the first one has ended
C13_Witness ==
    /\ Len(runs[1]) = 2
    /\ ~Running(runs[1][1])
    /\ Running(runs[1][2]) /\ InFlight(runs[1][2]) # {}
    /\ loading[1]

\* the badge of a status outside the enum: fallback variant, the status as text
FallbackBadge(status) ==
    /\ getStatusBadge(status).variant = JsString("secondary")
    /\ getStatusBadge(status).label = JsString(status)

\* C14: a stored status outside {pending, completed, cancelled} is rendered
\* with the fallback variant and a neutral fallback label, and the render does
\* not fail, in the order list and in the order detail view.
C14_UnknownStatusFallsBack ==
    /\ OrdersView # "throws"
    /\ DetailsView # "throws"
    /\ \A k \in 1..Len(ordersPage.rows) :
          ordersPage.rows[k].status \notin Statuses => FallbackBadge(ordersPage.rows[k].status)
    /\ (detailsPage.order # NoOrder /\ detailsPage.order.header.status \notin Statuses)
          => FallbackBadge(detailsPage.order.header.status)

\* a list screen whose mount-time read failed: still the empty list, the read
\* issued once, loading cleared
ListReadFailed(page) == page.failed => page.rows = <<>> /\ page.reads = 1 /\ ~page.loading

\* C18: when a mount-time read fails, the list screens (orders, products) keep
\* an empty list and the order detail view keeps a null order and shows the
\* not-found message; no read is issued again; loading ends false.
C18_FailedReadLeavesEmpty ==
    /\ ListReadFailed(ordersPage)
    /\ ListReadFailed(productsPage)
    /\ ordersPage.reads <= 1 /\ productsPage.reads <= 1 /\ detailsPage.reads <= 2
    /\ detailsPage.failed =>
          /\ detailsPage.order = NoOrder
          /\ ~detailsPage.loading
          /\ DetailsView = "not_found"
          /\ detailsPage.reads = IF detailsPage.orderData = <<>> THEN 1 ELSE 2

\* all three screens had a read fail; the detail view failed at its item read
C18_Witness ==
    /\ ordersPage.failed /\ productsPage.failed /\ detailsPage.failed
    /\ detailsPage.orderData # <<>>

\* C15: the editor never removes the last line item, and validation requires
\* at least one item: no step takes the item list from length >= 1 to length 0,
\* and a submit of an empty item list is rejected before any write is issued.
C15_LastItemStays ==
    [][/\ Len(form[1].order_items) >= 1 => Len(form'[1].order_items) >= 1
       /\ (HandleSubmit(1) /\ form[1].order_items = <<>>)
             => runs' = runs /\ UNCHANGED gatewayVars]_vars

\* a fetched amount that is missing or no number
MissingOrNonNumeric(v) == v = Null \/ v = NotANumber

\* C16: when an existing order is loaded into the editor, every monetary field
\* that is null or non-numeric in the fetched data is seeded as 0 in the form:
\* the four surcharges of the header and the unit price of every item.
C16_MissingAmountsSeededZero ==
    [][(initialLoading[1] /\ ~initialLoading'[1] /\ toasts' = toasts)
          => /\ \A p \in PriceFields :
                   MissingOrNonNumeric(fetched'[1].orderData[p]) => form'[1][p] = Zero
             /\ Len(form'[1].order_items) = Len(fetched'[1].itemsData)
             /\ \A k \in 1..Len(fetched'[1].itemsData) :
                   MissingOrNonNumeric(fetched'[1].itemsData[k].unit_price)
                      => form'[1].order_items[k].unit_price = Zero]_vars

\* C17: nothing is retried and the editor stays usable after a failure: each
\* submission issues at most one update, one delete and one insert; loading is
\* false again once the submission has ended, in success or in failure; after
\* a failed submission a new one can be started.
C17_NoRetryAndUsableAfterFailure ==
    /\ \A k \in 1..Len(runs[1]) :
          \A op \in Ops :
             Cardinality({i \in 1..Len(runs[1][k].issued) : runs[1][k].issued[i] = op}) <= 1
    /\ (HasRun(1) /\ ~Running(LatestRun(1))) => ~loading[1]
    /\ (LatestFailed(1) /\ location[1] = "editor") => Editable(1) /\ SubmitEnabled(1)

\* a second submission was started after a failed one, and it was saved
C17_Witness ==
    /\ Len(runs[1]) = 2
    /\ runs[1][1].outcome = "failed"
    /\ runs[1][2].outcome = "saved"
    /\ ~loading[1]

\* the step in which the gateway applies the insert of the k-th onSubmit call
InsertApplied(k) ==
    /\ k \in 1..Len(runs[1])
    /\ runs[1][k].st["insert"] = "sent"
    /\ runs'[1][k].st["insert"] = "ok"

\* row r was built from the submitted item
RowOfItem(r, item) ==
    /\ r.product_name = item.product_name
    /\ r.quantity = item.quantity
    /\ r.unit_price = item.unit_price
    /\ r.total_price = FMul(item.quantity, item.unit_price)

\* C19: the insert of a submission adds one row per line item of the submitted
\* list; each row carries the edited order's id and total_price = quantity *
\* unit_price of its item.
C19_InsertedRowsFollowItems ==
    [][\A k \in 1..MaxSubmits :
          InsertApplied(k) =>
             LET items == runs[1][k].data.order_items
                 new == order_items' \ order_items
             IN  /\ order_items \subseteq order_items'
                 /\ Cardinality(new) = Len(items)
                 /\ \A r \in new : r.order_id = routeId[1]
                 /\ \E q \in Orderings(new) : \A i \in 1..Len(items) : RowOfItem(q[i], items[i])]_vars

\* rows inserted for an item whose quantity was edited to 3
C19_Witness ==
    /\ HasRun(1)
    /\ LatestRun(1).st["insert"] = "ok"
    /\ \E r \in ItemsOf(routeId[1]) :
          /\ r.id >= FirstNewRowId
          /\ r.quantity = 3
          /\ r.total_price = FMul(3, r.unit_price)
          /\ r.total_price # r.unit_price

\* the step in which the k-th onSubmit call ends
Ends(k) ==
    /\ k \in 1..Len(runs[1])
    /\ Running(runs[1][k])
    /\ ~Running(runs'[1][k])

\* C20: a submission ends in exactly one of two ways: all three steps
\* succeeded, the success notification is shown and the editor navigates to the
\* orders list; or a step failed, the destructive notification is shown and
\* nothing navigates.  Never both, never neither.
C20_ExactlyOneOutcome ==
    [][\A k \in 1..MaxSubmits :
          Ends(k) =>
             IF \A op \in Ops : runs'[1][k].st[op] = "ok"
             THEN /\ runs'[1][k].outcome = "saved"
                  /\ toasts'[1] = Append(toasts[1], "saved")
                  /\ location'[1] = "orders"
             ELSE /\ runs'[1][k].outcome = "failed"
                  /\ \E op \in Ops : runs'[1][k].st[op] = "error"
                  /\ toasts'[1] = Append(toasts[1], "save_error")
                  /\ location'[1] = location[1]]_vars

\* one submission failed and showed its notification, the next one was saved
C20_Witness ==
    /\ toasts[1] = <<"save_error", "saved">>
    /\ location[1] = "orders"
    /\ Len(runs[1]) = 2

(***************************************************************************)
(* SpecAway: one editor against a gateway that answers every read and      *)
(* write without error; the user may leave the editor at any moment.  The  *)
(* gateway answers every request it was sent and the runtime runs every    *)
(* continuation whose promise has settled.                                 *)
(***************************************************************************)
AwayNext ==
    \/ Mount(1)
    \/ FetchOrderReturn(1, TRUE)
    \/ FetchItemsReturn(1, TRUE)
    \/ SetField(1, "status", "completed", FALSE)
    \/ \E i \in 1..MaxItems : SetItemField(1, i, "quantity", 3, FALSE)
    \/ HandleSubmit(1)
    \/ \E k \in 1..MaxSubmits, op \in Ops : Gateway(1, k, op, TRUE)
    \/ \E k \in 1..MaxSubmits, op \in Ops : Resume(1, k, op)
    \/ Cancel(1)

AwayFairness ==
    /\ WF_vars(\E k \in 1..MaxSubmits, op \in Ops : Gateway(1, k, op, TRUE))
    /\ WF_vars(\E k \in 1..MaxSubmits, op \in Ops : Resume(1, k, op))

SpecAway == Init /\ [][AwayNext]_vars /\ AwayFairness

\* the three writes of the session's latest onSubmit call have been applied:
\* the stored header and rows are the submitted ones
AllApplied(s) ==
    /\ HasRun(s)
    /\ \A op \in Ops : LatestRun(s).st[op] = "ok"
    /\ HoldsSubmitted(orders[routeId[s]], LatestRun(s).data)
    /\ RowsAreList(routeId[s], LatestRun(s).data.order_items)

\* C21: leaving the editor (cancel, back) while a submission runs does not stop
\* it: its remaining writes are still issued, in the order update, delete,
\* insert, and with a gateway that answers without error every submission that
\* was started reaches the state in which all three writes are applied.
C21_SubmissionOutlivesNavigation ==
    /\ [](\A k \in 1..Len(runs[1]) : IsPrefix(runs[1][k].issued, <<"update", "delete", "insert">>))
    /\ (HasRun(1) /\ Running(LatestRun(1))) ~> AllApplied(1)

\* the user has left the editor while the first write is still unanswered
C21_Witness ==
    /\ HasRun(1)
    /\ Running(LatestRun(1))
    /\ location[1] = "orders"
    /\ LatestRun(1).issued = <<"update">>
    /\ LatestRun(1).st["update"] = "sent"

(***************************************************************************)
(* SpecItems: one editor, loaded; items are appended and removed,          *)
(* quantities and unit prices typed in; nothing is submitted.              *)
(***************************************************************************)
ItemsNext ==
    \/ Mount(1)
    \/ \E ok \in BOOLEAN : FetchOrderReturn(1, ok)
    \/ \E ok \in BOOLEAN : FetchItemsReturn(1, ok)
    \/ AppendItem(1, FALSE)
    \/ \E i \in 1..MaxItems : RemoveItem(1, i, FALSE)
    \/ \E i \in 1..MaxItems : SetItemField(1, i, "quantity", 3, FALSE)
    \/ \E i \in 1..MaxItems : SetItemField(1, i, "unit_price", Tenth, FALSE)

SpecItems == Init /\ [][ItemsNext]_vars

\* the list without its i-th entry
Without(items, i) == SubSeq(items, 1, i - 1) \o SubSeq(items, i + 1, Len(items))

\* the totals the editor shows for form f are the ones computed from its list
TotalsOfList(f) ==
    /\ TotalPieces(f.order_items) = QuantitySum(f.order_items, Len(f.order_items))
    /\ ItemsTotal(f.order_items) = LineSum(f.order_items, Len(f.order_items))
    /\ TotalPrice(f) =
          FAdd(FAdd(FAdd(FAdd(LineSum(f.order_items, Len(f.order_items)), f.fabric_price),
                         f.tailoring_price), f.extra_costs), f.tax_amount)

\* C22: append adds exactly one entry at the end of the item list, with empty
\* product name, quantity 1, meters 0 and unit price 0, and changes no other
\* entry; remove at position i deletes exactly the i-th entry and keeps the
\* others in their order; after either step the totals are those of the new
\* list (one more piece and the same amount after an append).
C22_AppendRemoveFrame ==
    [][LET old == form[1].order_items
           new == form'[1].order_items
       IN  /\ AppendItem(1, FALSE) =>
                 /\ new = Append(old, [product_name |-> "", quantity |-> 1,
                                       meters |-> Zero, unit_price |-> Zero])
                 /\ [form'[1] EXCEPT !.order_items = old] = form[1]
                 /\ TotalsOfList(form'[1])
                 /\ TotalPieces(new) = TotalPieces(old) + 1
                 /\ ItemsTotal(new) = ItemsTotal(old)
           /\ \A i \in 1..MaxItems :
                 RemoveItem(1, i, FALSE) =>
                    /\ new = Without(old, i)
                    /\ [form'[1] EXCEPT !.order_items = old] = form[1]
                    /\ TotalsOfList(form'[1])
                    /\ TotalPieces(new) = TotalPieces(old) - old[i].quantity]_vars

\* the order was loaded with two rows, an entry was appended and a loaded entry
\* removed: the blank entry follows one loaded entry
C22_Witness ==
    /\ ~initialLoading[1]
    /\ Len(form[1].order_items) = 2
    /\ form[1].order_items[1].product_name # ""
    /\ form[1].order_items[2] =
          [product_name |-> "", quantity |-> 1, meters |-> Zero, unit_price |-> Zero]

\* the columns of orders the update payload does not name
KeptColumns == {"order_number", "images", "customer_id", "created_at"}

\* C23: a submission for order X writes rows of X only: the header and the item
\* rows of every other order are as they were stored, every inserted row has
\* order_id X, and order_number, images, customer_id and created_at of X are
\* unchanged, whether the submission succeeds or fails part-way.
C23_WritesOnlyEditedOrder ==
    /\ \A o \in OrderIds \ {routeId[1]} :
          /\ orders[o] = InitOrders[o]
          /\ ItemsOf(o) = {r \in InitItems : r.order_id = o}
    /\ \A o \in OrderIds : \A c \in KeptColumns : orders[o][c] = InitOrders[o][c]
    /\ \A r \in order_items : r.id >= FirstNewRowId => r.order_id = routeId[1]

\* two submissions for X, the first failed after its delete was applied, the
\* second was saved: header and rows of X were rewritten
C23_Witness ==
    /\ routeId[1] = "X"
    /\ Len(runs[1]) = 2
    /\ runs[1][1].outcome = "failed" /\ runs[1][1].st["delete"] = "ok"
    /\ runs[1][2].outcome = "saved"
    /\ orders["X"] # InitOrders["X"]
    /\ ItemsOf("X") # {}
    /\ ItemsOf("X") \cap InitItems = {}

\* the stored totals of order o are those of its stored rows, summed in some order
HeaderMatchesRows(o) ==
    /\ orders[o].total_pieces = QuantitySum(CHOOSE q \in Orderings(ItemsOf(o)) : TRUE,
                                            Cardinality(ItemsOf(o)))
    /\ \E q \in Orderings(ItemsOf(o)) :
          orders[o].total_price =
             FAdd(FAdd(FAdd(FAdd(RowsTotal(q), orders[o].fabric_price),
                            orders[o].tailoring_price), orders[o].extra_costs),
                  orders[o].tax_amount)

\* C24: two sessions submit edits of the same order concurrently; once both
\* submissions have ended successfully the stored header totals (total_price,
\* total_pieces) agree with the stored item rows: header and rows come from
\* the same submission.
C24_HeaderConsistentWithRows ==
    BothSaved => HeaderMatchesRows(routeId[1])

(***************************************************************************)
(* SpecFailedLoad: one editor whose reads and writes may each fail; the    *)
(* user fills in the customer fields and submits.                          *)
(***************************************************************************)
FailedLoadNext ==
    \/ Mount(1)
    \/ \E ok \in BOOLEAN : FetchOrderReturn(1, ok)
    \/ \E ok \in BOOLEAN : FetchItemsReturn(1, ok)
    \/ SetField(1, "customer_name", "Omar", FALSE)
    \/ SetField(1, "customer_phone", "0552", FALSE)
    \/ HandleSubmit(1)
    \/ \E k \in 1..MaxSubmits, op \in Ops, ok \in BOOLEAN : Gateway(1, k, op, ok)
    \/ \E k \in 1..MaxSubmits, op \in Ops : Resume(1, k, op)

SpecFailedLoad == Init /\ [][FailedLoadNext]_vars

\* fetchOrder of the session ended in its catch branch
LoadFailed(s) == ~initialLoading[s] /\ toasts[s] # <<>> /\ toasts[s][1] = "load_error"

\* C25: when the order read or the item read of the initial load fails, the
\* form stays at its defaults (empty customer fields, status pending, the
\* surcharges 0, no items), the destructive notification is shown and
\* initialLoading becomes false, so the form is displayed; a later valid
\* submission runs the three writes with an empty item list, and once they
\* succeeded the order has no stored item row.
C25_FailedLoadThenSubmitEmptiesOrder ==
    /\ [][/\ (initialLoading[1] /\ ~initialLoading'[1] /\ toasts'[1] # toasts[1])
               => /\ toasts'[1] = <<"load_error">>
                  /\ form'[1] = [customer_name |-> "", customer_phone |-> "",
                                 status |-> "pending", fabric_price |-> Zero,
                                 tailoring_price |-> Zero, extra_costs |-> Zero,
                                 tax_amount |-> Zero, order_items |-> <<>>]
                  /\ location'[1] = "editor"
          /\ (HandleSubmit(1) /\ LoadFailed(1) /\ PassesSchema(form[1]))
               => /\ Len(runs'[1]) = Len(runs[1]) + 1
                  /\ runs'[1][Len(runs'[1])].data.order_items = <<>>
                  /\ runs'[1][Len(runs'[1])].st["update"] = "sent"]_vars
    /\ []((LoadFailed(1) /\ LatestSaved(1))
            => /\ LatestRun(1).issued = <<"update", "delete", "insert">>
               /\ LatestRun(1).data.order_items = <<>>
               /\ ItemsOf(routeId[1]) = {})

\* the item read failed, the customer fields were typed in and the submission
\* was saved: the order had rows and has none now
C25_Witness ==
    /\ LoadFailed(1)
    /\ fetched[1].orderData # <<>>
    /\ LatestSaved(1)
    /\ LatestRun(1).before # {}
    /\ ItemsOf(routeId[1]) = {}
    /\ orders[routeId[1]].total_pieces = 0

\* the rows of a fetched list, as a set
RowSet(q) == {q[k] : k \in 1..Len(q)}

\* C26: in the order detail view the order is set only when both the order read
\* and the item read returned without error: it then holds the fetched header
\* and the fetched rows; when the order read succeeded and the item read
\* failed the order stays null and the not-found message is shown; when the
\* order read failed the item read is never issued.
C26_OrderSetOnlyAfterBothReads ==
    /\ detailsPage.order # NoOrder =>
          /\ ~detailsPage.failed
          /\ detailsPage.reads = 2
          /\ detailsPage.pc = "done"
          /\ detailsPage.order.header = orders[detailsPage.id]
          /\ RowSet(detailsPage.order.order_items) \subseteq ItemsOf(detailsPage.id)
    /\ detailsPage.failed =>
          /\ detailsPage.order = NoOrder
          /\ DetailsView = "not_found"
    /\ (detailsPage.failed /\ detailsPage.orderData = <<>>) => detailsPage.reads = 1

\* the order read succeeded, the item read failed: no order on screen
C26_Witness ==
    /\ detailsPage.failed
    /\ detailsPage.orderData # <<>>
    /\ detailsPage.reads = 2
    /\ detailsPage.order = NoOrder
    /\ DetailsView = "not_found"

(***************************************************************************)
(* SpecLoading: the four screens that keep a loading flag are mounted and  *)
(* run their mount effects; each read returns rows, null data or an error. *)
(* React runs the effect of a mounted component and the gateway answers    *)
(* every read.                                                             *)
(***************************************************************************)
LoadingInit ==
    /\ orders = InitOrders
    /\ order_items = InitItems
    /\ nextRowId = FirstNewRowId
    /\ routeId \in {r \in [Sessions -> OrderIds \cup {NoId}] : \A s \in Sessions : s # 1 => r[s] = "X"}
    /\ form = [s \in Sessions |-> DefaultValues]
    /\ errors = [s \in Sessions |-> {}]
    /\ initialLoading = [s \in Sessions |-> TRUE]
    /\ loading = [s \in Sessions |-> FALSE]
    /\ pc = [s \in Sessions |-> "mount"]
    /\ fetched = [s \in Sessions |-> NothingFetched]
    /\ runs = [s \in Sessions |-> <<>>]
    /\ toasts = [s \in Sessions |-> <<>>]
    /\ location = [s \in Sessions |-> "editor"]
    /\ edits = [s \in Sessions |-> 0]
    /\ ordersPage = ListPageInit
    /\ productsPage = ListPageInit
    /\ detailsPage \in {DetailsPageInit(id) : id \in OrderIds \cup {NoId}}
    /\ dashboard = DashboardInit
    /\ loginPage = LoginInit

LoadingNext ==
    \/ OrdersMount
    \/ \E res \in ReadResults : FetchOrdersReturn(res)
    \/ ProductsMount
    \/ \E res \in ReadResults : FetchProductsReturn(res)
    \/ DetailsMount
    \/ \E ok \in BOOLEAN : FetchOrderDetailsOrderReturn(ok)
    \/ \E res \in ReadResults : FetchOrderDetailsItemsReturn(res)
    \/ Mount(1)
    \/ \E ok \in BOOLEAN : FetchOrderReturn(1, ok)
    \/ \E ok \in BOOLEAN : FetchItemsReturn(1, ok)

LoadingFairness ==
    /\ WF_vars(OrdersMount)
    /\ WF_vars(\E res \in ReadResults : FetchOrdersReturn(res))
    /\ WF_vars(ProductsMount)
    /\ WF_vars(\E res \in ReadResults : FetchProductsReturn(res))
    /\ WF_vars(DetailsMount)
    /\ WF_vars(\E ok \in BOOLEAN : FetchOrderDetailsOrderReturn(ok))
    /\ WF_vars(\E res \in ReadResults : FetchOrderDetailsItemsReturn(res))
    /\ WF_vars(Mount(1))
    /\ WF_vars(\E ok \in BOOLEAN : FetchOrderReturn(1, ok))
    /\ WF_vars(\E ok \in BOOLEAN : FetchItemsReturn(1, ok))

SpecLoading == LoadingInit /\ [][LoadingNext]_vars /\ LoadingFairness

\* C27: on every screen that fetches on mount and keeps a loading flag (orders,
\* products, order details, order editor) the flag eventually becomes false,
\* and is false once the fetch has ended, whether its reads succeeded or one
\* failed; for the order details and the order editor only when the route has
\* an id: without one no read is issued and the screen stays loading forever.
C27_LoadingEventuallyCleared ==
    /\ <>[](~ordersPage.loading)
    /\ <>[](~productsPage.loading)
    /\ (detailsPage.id # NoId) ~> [](~detailsPage.loading)
    /\ (routeId[1] # NoId) ~> [](~initialLoading[1])
    /\ [](ordersPage.pc = "done" => ~ordersPage.loading)
    /\ [](productsPage.pc = "done" => ~productsPage.loading)
    /\ [](detailsPage.pc = "done" => ~detailsPage.loading)
    /\ [](pc[1] = "idle" => ~initialLoading[1])
    /\ [](detailsPage.id = NoId => detailsPage.loading /\ detailsPage.reads = 0)
    /\ [](routeId[1] = NoId => initialLoading[1] /\ pc[1] = "mount")

\* the orders read failed and the products read succeeded, both flags are
\* cleared; the editor finished loading; the details screen has no id and is
\* still loading
C27_Witness ==
    /\ ordersPage.failed /\ ~ordersPage.loading
    /\ productsPage.pc = "done" /\ ~productsPage.failed /\ ~productsPage.loading
    /\ routeId[1] # NoId /\ pc[1] = "idle" /\ ~initialLoading[1]
    /\ detailsPage.id = NoId /\ detailsPage.loading /\ detailsPage.pc = "mount"

(***************************************************************************)
(* The Dashboard and its statistics.                                       *)
(***************************************************************************)
editorVars == <<routeId, form, errors, initialLoading, loading, pc, fetched, runs, toasts,
                location, edits>>

\* the rows of table customers, as selected: id
StoredCustomers == <<"c1", "c2">>

\* sum + Number(order.total_price)
AddRevenue(sum, order) == FAdd(sum, ToNumber(order.total_price))

\* orders.filter(order => order.status === status).length
CountStatus(list, status) == Len(SelectSeq(list, LAMBDA order : order.status = status))

\* customers?.length || 0
CustomerCount(customers) == IF customers.ok THEN Len(customers.rows) ELSE 0

\* statistics whose revenue adds up the completed orders only
StatsRevenueOfCompleted(list, customers) ==
    [totalOrders |-> Len(list),
     totalRevenue |-> Reduce(AddRevenue, SelectSeq(list, LAMBDA order : order.status = "completed"),
                             Zero),
     totalCustomers |-> CustomerCount(customers),
     pendingOrders |-> CountStatus(list, "pending"),
     completedOrders |-> CountStatus(list, "completed")]

\* the argument of setStats
Stats(list, customers) ==
    [totalOrders |-> Len(list),
     totalRevenue |-> Reduce(AddRevenue, list, Zero),
     totalCustomers |-> CustomerCount(customers),
     pendingOrders |-> CountStatus(list, "pending"),
     completedOrders |-> CountStatus(list, "completed")]

\* useEffect(() => { fetchStats() }, []): the order read is issued
DashboardMount ==
    /\ dashboard.pc = "mount"
    /\ dashboard' = [dashboard EXCEPT !.pc = "orders"]
    /\ UNCHANGED <<gatewayVars, editorVars, ordersPage, productsPage, detailsPage, loginPage>>

\* .select('total_price, status')
Selected(o) == [total_price |-> o.total_price, status |-> o.status]

\* the order read returns; its error is not looked at, without data orders is
\* null; the customer read is issued
FetchStatsOrdersReturn(res) ==
    /\ dashboard.pc = "orders"
    /\ \E q \in Orderings(OrderIds) :
          dashboard' = [dashboard EXCEPT
                           !.pc = "customers",
                           !.orders = IF res = "rows"
                                      THEN Rows([k \in 1..Len(q) |-> Selected(orders[q[k]])])
                                      ELSE NullData]
    /\ UNCHANGED <<gatewayVars, editorVars, ordersPage, productsPage, detailsPage, loginPage>>

\* the customer read returns; if (orders) setStats({...})
FetchStatsCustomersReturn(res) ==
    /\ dashboard.pc = "customers"
    /\ LET customers == IF res = "rows" THEN Rows(StoredCustomers) ELSE NullData
       IN  dashboard' = [dashboard EXCEPT
                            !.pc = "done",
                            !.customers = customers,
                            !.stats = IF dashboard.orders.ok
                                      THEN Stats(dashboard.orders.rows, customers)
                                      ELSE @]
    /\ UNCHANGED <<gatewayVars, editorVars, ordersPage, productsPage, detailsPage, loginPage>>

\* total_price values a stored order can carry
StoredTotals == {FromInt(31), Tenth, TwoTenths}

DashboardStoredInit ==
    /\ \E sx, sy \in StoredStatuses : \E tx, ty \in StoredTotals :
          orders = [InitOrders EXCEPT !["X"].status = sx, !["Y"].status = sy,
                                      !["X"].total_price = tx, !["Y"].total_price = ty]
    /\ order_items = InitItems
    /\ nextRowId = FirstNewRowId
    /\ routeId = [s \in Sessions |-> "X"]
    /\ form = [s \in Sessions |-> DefaultValues]
    /\ errors = [s \in Sessions |-> {}]
    /\ initialLoading = [s \in Sessions |-> TRUE]
    /\ loading = [s \in Sessions |-> FALSE]
    /\ pc = [s \in Sessions |-> "mount"]
    /\ fetched = [s \in Sessions |-> NothingFetched]
    /\ runs = [s \in Sessions |-> <<>>]
    /\ toasts = [s \in Sessions |-> <<>>]
    /\ location = [s \in Sessions |-> "editor"]
    /\ edits = [s \in Sessions |-> 0]
    /\ ViewsInit

DashboardNext ==
    \/ DashboardMount
    \/ \E res \in ReadResults : FetchStatsOrdersReturn(res)
    \/ \E res \in ReadResults : FetchStatsCustomersReturn(res)

SpecDashboard == DashboardStoredInit /\ [][DashboardNext]_vars

RECURSIVE RevenueSum(_, _)
\* the sum of total_price over the first n orders of the list
RevenueSum(list, n) ==
    IF n = 0 THEN Zero ELSE FAdd(RevenueSum(list, n - 1), list[n].total_price)

\* how many entries of the list carry the status
WithStatus(list, status) == Cardinality({k \in 1..Len(list) : list[k].status = status})

\* C28: the statistics computed from a fetched order list: totalOrders is the
\* number of orders, totalRevenue the sum of total_price over all of them
\* whatever their status, pendingOrders and completedOrders the numbers of
\* orders with status pending and completed, and pendingOrders +
\* completedOrders <= totalOrders; when the order read yields no data all five
\* statistics stay 0, also when the customer read succeeded.
C28_DashboardStats ==
    LET st == dashboard.stats
        list == dashboard.orders.rows
    IN  IF dashboard.pc = "done" /\ dashboard.orders.ok
        THEN /\ st.totalOrders = Len(list)
             /\ st.totalOrders = Cardinality(OrderIds)
             /\ st.totalRevenue = RevenueSum(list, Len(list))
             /\ st.pendingOrders = WithStatus(list, "pending")
             /\ st.completedOrders = WithStatus(list, "completed")
             /\ st.pendingOrders + st.completedOrders <= st.totalOrders
        ELSE /\ st.totalOrders = 0
             /\ st.totalRevenue = Zero
             /\ st.totalCustomers = 0
             /\ st.pendingOrders = 0
             /\ st.completedOrders = 0

\* a pending and an archived order of 0.1 and 0.2: one pending order, none
\* completed, a revenue over both
C28_Witness ==
    /\ dashboard.pc = "done" /\ dashboard.orders.ok
    /\ dashboard.stats.totalOrders = 2
    /\ dashboard.stats.pendingOrders = 1
    /\ dashboard.stats.completedOrders = 0
    /\ dashboard.stats.totalRevenue = FAdd(Tenth, TwoTenths)
    /\ dashboard.stats.totalRevenue # ThreeTenths
    /\ \E k \in 1..2 : dashboard.orders.rows[k].status = "archived"

(***************************************************************************)
(* The Login screen.  signIn is the authentication collaborator: it        *)
(* resolves to an object without error, or with an error carrying a        *)
(* message.                                                                *)
(***************************************************************************)
SignInErrors == {"Invalid login credentials", "Email not confirmed"}

SignInResults == {NoError} \cup {[error |-> TRUE, message |-> m] : m \in SignInErrors}

TypedEmails == {"", "staff@shop"}
TypedPasswords == {"", "secret"}

LoginFrame == UNCHANGED <<gatewayVars, editorVars, ordersPage, productsPage, detailsPage, dashboard>>

\* onChange of the email input
SetEmail(v) ==
    /\ loginPage.location = "login"
    /\ loginPage.email # v
    /\ loginPage' = [loginPage EXCEPT !.email = v]
    /\ LoginFrame

\* onChange of the password input
SetPassword(v) ==
    /\ loginPage.location = "login"
    /\ loginPage.password # v
    /\ loginPage' = [loginPage EXCEPT !.password = v]
    /\ LoginFrame

\* <Button type="submit" disabled={loading}>
LoginEnabled == ~loginPage.loading

\* both inputs are required: the browser submits the form only when filled
LoginFilled == loginPage.email # "" /\ loginPage.password # ""

\* handleSubmit up to its await: setLoading(true), signIn(email, password)
LoginSubmit ==
    /\ loginPage.location = "login"
    /\ LoginEnabled
    /\ LoginFilled
    /\ loginPage.attempts < MaxAttempts
    /\ loginPage' = [loginPage EXCEPT !.loading = TRUE, !.pc = "signIn", !.attempts = @ + 1]
    /\ LoginFrame

\* a handleSubmit that navigates whatever signIn returned
NavigatesAlways(result) == TRUE

\* if (error) {...} else {...; navigate('/dashboard')}
Navigates(result) == ~result.error

\* the toast handleSubmit shows
LoginToast(result) ==
    IF result.error
    THEN [variant |-> "destructive", description |-> result.message]
    ELSE [variant |-> "default", description |-> "signed in"]

\* handleSubmit after its await: toast, navigate on success, setLoading(false)
SignInReturn(result) ==
    /\ loginPage.pc = "signIn"
    /\ loginPage' = [loginPage EXCEPT
                        !.pc = "idle",
                        !.result = result,
                        !.toasts = Append(@, LoginToast(result)),
                        !.location = IF Navigates(result) THEN "dashboard" ELSE @,
                        !.loading = FALSE]
    /\ LoginFrame

LoginNext ==
    \/ \E v \in TypedEmails : SetEmail(v)
    \/ \E v \in TypedPasswords : SetPassword(v)
    \/ LoginSubmit
    \/ \E result \in SignInResults : SignInReturn(result)

SpecLogin == Init /\ [][LoginNext]_vars

\* the step in which a sign-in attempt ends
AttemptEnds == loginPage.pc = "signIn" /\ loginPage'.pc = "idle"

\* C29: a sign-in attempt navigates to the dashboard only when the
\* authentication collaborator returned no error; on an error the
\* collaborator's message is shown and the login screen stays; in both cases
\* loading, which disables the submit button during the attempt, is false
\* afterwards, so that a new attempt can be made.
C29_SignInOutcome ==
    /\ [][AttemptEnds =>
             /\ loginPage.loading
             /\ ~loginPage'.loading
             /\ Len(loginPage'.toasts) = Len(loginPage.toasts) + 1
             /\ IF loginPage'.result.error
                THEN /\ loginPage'.location = "login"
                     /\ loginPage'.toasts[Len(loginPage'.toasts)].description
                           = loginPage'.result.message
                     /\ loginPage'.toasts[Len(loginPage'.toasts)].variant = "destructive"
                ELSE loginPage'.location = "dashboard"]_vars
    /\ [](loginPage.loading <=> loginPage.pc = "signIn")
    /\ [](loginPage.location = "dashboard" => ~loginPage.result.error)
    /\ []((loginPage.pc = "idle" /\ loginPage.location = "login") => LoginEnabled)

\* a first attempt failed and showed the collaborator's message, a second one
\* was made and succeeded
C29_Witness ==
    /\ loginPage.attempts = 2
    /\ loginPage.pc = "idle"
    /\ ~loginPage.loading
    /\ Len(loginPage.toasts) = 2
    /\ loginPage.toasts[1] = [variant |-> "destructive",
                              description |-> "Invalid login credentials"]
    /\ loginPage.location = "dashboard"

====
